---- MODULE Spec2Model ----
(***************************************************************************)
(* Model of api.py: the Flask front end of a 123pan account.               *)
(*                                                                         *)
(* One process-wide lock, one shared Pan123API object (config, persisted   *)
(* settings.json, backend handle `pan`), the module-level startup login    *)
(* and a pool of request threads, each running one request handler at a    *)
(* time.  A handler is cut into steps at the lock operations, at the start *)
(* and at the end of every backend call, and at the unlocked accesses of   *)
(* the /api/login handler, so that interleavings of requests are visible.  *)
(***************************************************************************)
EXTENDS Integers, Sequences, FiniteSets, TLC

VARIABLES
    lock,       \* holder of the global threading.Lock, or NoThread
    pan,        \* api.pan: the installed backend handle
    config,     \* api.config
    persisted,  \* contents of settings.json
    pc,         \* position of every thread in its handler
    req,        \* the request a thread is handling
    parts,      \* path segments still to resolve as folders
    cur,        \* current_id / current_dir; idx once parsing has found its file
    code,       \* login_code of the thread's last backend login
    resp,       \* the thread's last HTTP response
    inCall,     \* threads inside a backend call
    calls,      \* per request: backend calls issued, exceptions raised by the backend
    snap,       \* per request: handle at lock acquisition, authorization at request start
    dirty,      \* per request: another thread wrote the authorization meanwhile
    prev,       \* per thread: the resolution request it handled just before
    nreq,       \* requests accepted so far
    files,      \* the upload folder: per file name, the request whose content it holds
    sent        \* per request: whose content its backend upload call read

vars == <<lock, pan, config, persisted, pc, req, parts, cur, code, resp,
          inCall, calls, snap, dirty, prev, nreq, files, sent>>

-----------------------------------------------------------------------------
(* Bounds of the model *)

\* Total number of requests the server handles in one behaviour.
MaxRequests == 2

\* Request threads of the HTTP server; Main is the thread importing the module.
Workers == <<"w1", "w2">>
Threads == {Workers[i] : i \in DOMAIN Workers}
Main == "main"
AllThreads == Threads \cup {Main}
NoThread == "none"

-----------------------------------------------------------------------------
(* Program constants *)

OK == 200            \* login_code != 200, result.get("code") == 200
RootId == 0          \* current_dir = 0
FolderType == 1      \* item["Type"] == 1
KB == 1024
MB == 1048576
GB == 1073741824

-----------------------------------------------------------------------------
(* The backend account: a fixed directory tree.  Names and paths are       *)
(* sequences of characters.                                                *)

Entry(id, name, type, size) ==
    [FileId |-> id, FileName |-> name, Type |-> type, Size |-> size]

\* Listing returned by the backend for directory `dir`, in backend order.
BackendListing(dir) ==
    CASE dir = 0 -> << Entry(1, <<"a">>, 1, 0), Entry(2, <<"f">>, 0, 1024) >>
      [] dir = 1 -> << Entry(3, <<"b">>, 1, 0), Entry(4, <<"f">>, 1, 0),
                       Entry(5, <<"f">>, 0, 1025) >>
      [] dir = 3 -> << Entry(6, <<"a">>, 0, 1048577) >>
      [] OTHER   -> << >>

\* Status codes the backend answers to login and to the mutating calls.
BackendCodes == {200, 401}
\* Tokens the backend issues on a successful login.
Tokens == {"t1", "t2"}

-----------------------------------------------------------------------------
(* Pure helpers *)

\* str.split("/"): the segments between slashes, empty ones included.
RECURSIVE SplitSlash(_, _)
SplitSlash(s, acc) ==
    IF s = << >> THEN << acc >>
    ELSE IF Head(s) = "/" THEN << acc >> \o SplitSlash(Tail(s), << >>)
         ELSE SplitSlash(Tail(s), Append(acc, Head(s)))

\* [p for p in path.split("/") if p]
PathParts(path) ==
    SelectSeq(SplitSlash(path, << >>), LAMBDA p : p # << >>)

\* "_".join(segments)
RECURSIVE JoinUnderscore(_)
JoinUnderscore(segs) ==
    IF segs = << >> THEN << >>
    ELSE IF Len(segs) = 1 THEN Head(segs)
    ELSE Head(segs) \o <<"_">> \o JoinUnderscore(Tail(segs))

\* str.strip("._")
RECURSIVE StripDots(_)
StripDots(s) ==
    IF s = << >> THEN s
    ELSE IF Head(s) \in {".", "_"} THEN StripDots(Tail(s))
    ELSE IF s[Len(s)] \in {".", "_"} THEN StripDots(SubSeq(s, 1, Len(s) - 1))
    ELSE s

\* secure_filename on names made of letters, dots and slashes: the path
\* separators become blanks, the blank-separated pieces are joined with "_",
\* and leading and trailing dots and underscores are stripped.
SecureFilename(name) == StripDots(JoinUnderscore(PathParts(name)))

\* path_parts[:-1]
AllButLast(s) == IF s = << >> THEN << >> ELSE SubSeq(s, 1, Len(s) - 1)

\* The scan of _find_folder_by_name: index of the first folder named `name`
\* in listing `lst`, 0 when there is none.
FindFolderIdx(lst, name) ==
    LET hits == {i \in 1..Len(lst) :
                    lst[i].Type = FolderType /\ lst[i].FileName = name}
    IN  IF hits = {} THEN 0 ELSE CHOOSE i \in hits : \A j \in hits : i <= j

\* Mutant: the scan of parsing does not look at the Type of an entry.
FindFileIdxAnyType(lst, name) ==
    LET hits == {i \in 1..Len(lst) : lst[i].FileName = name}
    IN  IF hits = {} THEN 0 ELSE CHOOSE i \in hits : \A j \in hits : i <= j

\* The scan of parsing: index of the first non-folder entry named `name`.
FindFileIdx(lst, name) ==
    LET hits == {i \in 1..Len(lst) :
                    lst[i].Type # FolderType /\ lst[i].FileName = name}
    IN  IF hits = {} THEN 0 ELSE CHOOSE i \in hits : \A j \in hits : i <= j

\* str(item["FileId"]): decimal digits.
Digit(n) == <<"0", "1", "2", "3", "4", "5", "6", "7", "8", "9">>[n + 1]
RECURSIVE IdStr(_)
IdStr(n) == IF n < 10 THEN << Digit(n) >>
            ELSE Append(IdStr(n \div 10), Digit(n % 10))

\* round(size / unit, 2) in hundredths, for a unit that is a multiple of
\* 1024.  The quotient by a power of two is exact in floating point, so
\* round() gives the nearest hundredth, ties to even.  With r the remainder
\* of size by unit, r * 100 is split at unit / 1024 so that no intermediate
\* value exceeds 32 bits: r * 100 = top * (unit / 1024) + low.
RoundHundredths(size, unit) ==
    LET u1 == unit \div KB
        r == size % unit
        low == ((r % u1) * 100) % u1
        top == (r \div u1) * 100 + ((r % u1) * 100) \div u1
        q == (size \div unit) * 100 + top \div KB
        rem == (top % KB) * u1 + low
    IN  IF rem > unit - rem \/ (rem = unit - rem /\ q % 2 = 1)
        THEN q + 1 ELSE q

\* str() of a float that is a whole number of hundredths: "1.0", "1.5",
\* "1.25".
FloatStr(h) ==
    IdStr(h \div 100) \o <<".">> \o
        (IF h % 10 = 0 THEN << Digit((h % 100) \div 10) >>
         ELSE << Digit((h % 100) \div 10), Digit(h % 10) >>)

\* Mutant: the thresholds are compared with >=.
FormatSizeInclusive(size) ==
    IF size >= GB THEN FloatStr(RoundHundredths(size, GB)) \o <<"G", "B">>
    ELSE IF size >= MB THEN FloatStr(RoundHundredths(size, MB)) \o <<"M", "B">>
    ELSE IF size >= KB THEN FloatStr(RoundHundredths(size, KB)) \o <<"K", "B">>
    ELSE IdStr(size) \o <<"B">>

\* _format_size, as a sequence of characters.
FormatSize(size) ==
    IF size > GB THEN FloatStr(RoundHundredths(size, GB)) \o <<"G", "B">>
    ELSE IF size > MB THEN FloatStr(RoundHundredths(size, MB)) \o <<"M", "B">>
    ELSE IF size > KB THEN FloatStr(RoundHundredths(size, KB)) \o <<"K", "B">>
    ELSE IdStr(size) \o <<"B">>

\* Mutant: only entries of Type 0 are taken for files.
ListResultTypeZero(lst) ==
    LET isFolder(e) == e.Type = FolderType
        isFile(e) == e.Type = 0
        fo == SelectSeq(lst, isFolder)
        fi == SelectSeq(lst, isFile)
    IN  [folder |-> [i \in 1..Len(fo) |->
                        [id |-> IdStr(fo[i].FileId), name |-> fo[i].FileName]],
         file   |-> [i \in 1..Len(fi) |->
                        [id |-> IdStr(fi[i].FileId), name |-> fi[i].FileName,
                         size |-> FormatSize(fi[i].Size)]]]

\* The loop of Pan123API.list over the fetched listing.
ListResult(lst) ==
    LET isFolder(e) == e.Type = FolderType
        isFile(e) == e.Type # FolderType
        fo == SelectSeq(lst, isFolder)
        fi == SelectSeq(lst, isFile)
    IN  [folder |-> [i \in 1..Len(fo) |->
                        [id |-> IdStr(fo[i].FileId), name |-> fo[i].FileName]],
         file   |-> [i \in 1..Len(fi) |->
                        [id |-> IdStr(fi[i].FileId), name |-> fi[i].FileName,
                         size |-> FormatSize(fi[i].Size)]]]

-----------------------------------------------------------------------------
(* The backend client (pan123.Pan123), an opaque collaborator *)

\* self.pan = None
NoneHandle ==
    [alive |-> FALSE, id |-> 0, user_name |-> "", password |-> "",
     authorization |-> "", parent_file_id |-> RootId, list |-> << >>]

\* Pan123(readfile=True, user_name=..., pass_word=..., authorization=...):
\* a fresh handle holding the given credentials, its cursor at the root.
NewHandle(id, user, pass, auth) ==
    [alive |-> TRUE, id |-> id, user_name |-> user, password |-> pass,
     authorization |-> auth, parent_file_id |-> RootId, list |-> << >>]

\* Tokens a successful login of handle h can be given.  Token names are
\* interchangeable, so the first token ever issued is called "t1"; a later
\* login gets any token, the one it presented included.
IssuedTokens(h) == IF h.authorization \in Tokens THEN Tokens ELSE {"t1"}

\* Pan123.login(): the handle after the backend answered code c with token tok.
HandleAfterLogin(h, c, tok) ==
    IF c = OK THEN [h EXCEPT !.authorization = tok] ELSE h

\* Pan123.get_dir(): the handle after fetching the listing of its cursor.
HandleAfterGetDir(h) ==
    [h EXCEPT !.list = BackendListing(h.parent_file_id)]

\* Pan123.link(idx): the download link of entry idx of the last listing.
LinkOf(h, idx) == [target |-> h.list[idx].FileId]

-----------------------------------------------------------------------------
(* Requests *)

ResolveOps == {"list_folder", "parsing"}
LoginOps == {"startup", "login", "reload"}
MutateOps == {"share", "delete", "create_folder", "upload"}

Paths == { <<"/">>,
           <<"f">>,
           <<"a", "/", "f">>,
           <<"a", "/", "x", "/", "f">>,
           <<"/", "a", "/", "/", "b", "/", "a">> }

DefaultPaths == { << >>, <<"/">>, <<"a", "/", "b">>, <<"x">> }

\* (username, password) bodies of POST /api/login
Creds == { <<"", "">>, <<"u2", "">>, <<"u2", "p2">> }

Request(op, path, user, pass, arg) ==
    [op |-> op, path |-> path, user |-> user, pass |-> pass, arg |-> arg]

\* The parameter of a mutating request (file_id, folder_name, or the name of
\* the uploaded file part) as a sequence of characters; << >> stands for a
\* parameter that is missing or empty.
NoArg == << >>
Args == { NoArg, <<"x">> }

\* file.filename of the uploaded part: two names that secure_filename maps to
\* the same staged name.
UploadNames == { <<"x">>, <<".", ".", "/", "x">> }

\* Names a staged file can have in the upload folder.
StagedNames == { SecureFilename(n) : n \in UploadNames } \ { << >> }

Requests ==
    { Request("list", << >>, "", "", NoArg),
      Request("reload", << >>, "", "", NoArg) }
    \cup { Request(op, p, "", "", NoArg) : op \in ResolveOps, p \in Paths }
    \cup { Request("login", << >>, c[1], c[2], NoArg) : c \in Creds }
    \cup { Request(op, << >>, "", "", a) :
              op \in MutateOps \ {"upload"}, a \in Args }
    \cup { Request("upload", << >>, "", "", a) :
              a \in {NoArg} \cup UploadNames }

Response(status, body) == [status |-> status, body |-> body]
NoResponse == Response(0, [none |-> TRUE])

NoCalls == [get_dir |-> 0, link |-> 0, raised |-> FALSE]
NoSnap == [pan |-> NoneHandle, auth |-> "", pauth |-> ""]
NoPrev == [op |-> "", path |-> << >>, resp |-> NoResponse]

\* First pc of the handler of each endpoint.
FirstPc(op) ==
    CASE op = "list"        -> "list_acquire"
      [] op = "list_folder" -> "lf_acquire"
      [] op = "parsing"     -> "pa_acquire"
      [] op = "login"       -> "h_login"
      [] op = "reload"      -> "login_acquire"
      [] OTHER              -> "h_param"

\* Status of a handler's `except Exception` clause.
ExceptionStatus(op) == IF op = "login" THEN 401 ELSE 500

\* Status a handler gives a result that carries 'error'.
ErrorStatus(op) == IF op \in ResolveOps THEN 404 ELSE 400

-----------------------------------------------------------------------------
(* Initial state: the module is being imported, Pan123API() has loaded     *)
(* settings.json and set self.pan = None, and is about to call login().    *)

Init ==
    /\ lock = NoThread
    /\ pan = NoneHandle
    /\ \E dp \in DefaultPaths :
          config = [defaultPath |-> dp, user |-> "u1", password |-> "p1",
                    authorization |-> "t0"]
    /\ persisted = config
    /\ pc = [t \in AllThreads |-> IF t = Main THEN "login_acquire" ELSE "idle"]
    /\ req = [t \in AllThreads |->
                Request(IF t = Main THEN "startup" ELSE "", << >>, "", "", NoArg)]
    /\ parts = [t \in AllThreads |-> << >>]
    /\ cur = [t \in AllThreads |-> 0]
    /\ code = [t \in AllThreads |-> 0]
    /\ resp = [t \in AllThreads |-> NoResponse]
    /\ inCall = {}
    /\ calls = [t \in AllThreads |-> NoCalls]
    /\ snap = [t \in AllThreads |->
                IF t = Main
                THEN [pan |-> NoneHandle, auth |-> config.authorization,
                      pauth |-> persisted.authorization]
                ELSE NoSnap]
    /\ dirty = [t \in AllThreads |-> FALSE]
    /\ prev = [t \in AllThreads |-> NoPrev]
    /\ nreq = 0
    /\ files = [n \in StagedNames |-> NoThread]
    /\ sent = [t \in AllThreads |-> NoThread]

-----------------------------------------------------------------------------
(* Lock, responses, bookkeeping *)

\* Mutant: the lock is taken without waiting for its holder.
AcquireNoWait(t) == lock' = t

\* lock.acquire() of `with lock:` -- threading.Lock is not reentrant.
Acquire(t) == lock = NoThread /\ lock' = t

\* lock.release() when a `with lock:` block is left, by return or by raise.
Release(t) == lock' = NoThread

\* The handler answers; its locals die with it.
\* Mutant: the constructor swallows the exception of the first login.
StartupOutcomeSwallowed(r) == "serving"

\* `api = Pan123API()` at import: an exception of the first login() leaves
\* __init__ and the module, so the process ends before app.run(); otherwise
\* the application starts serving.
StartupOutcome(r) ==
    IF "error" \in DOMAIN r.body THEN "dead" ELSE "serving"

Finish(t, r) ==
    /\ resp' = [resp EXCEPT ![t] = r]
    /\ pc' = [pc EXCEPT ![t] = IF t # Main THEN "done" ELSE StartupOutcome(r)]
    /\ parts' = [parts EXCEPT ![t] = << >>]
    /\ cur' = [cur EXCEPT ![t] = 0]
    /\ code' = [code EXCEPT ![t] = 0]
    /\ snap' = [snap EXCEPT ![t] = NoSnap]

\* What the caller of login() makes of an exception: /api/login answers 401,
\* reload_session turns it into {"error"}, which /api/reload answers 400.
LoginFailResp(op, msg) ==
    Response(IF op = "reload" THEN ErrorStatus(op) ELSE ExceptionStatus(op),
             [error |-> msg])

LoginOkResp(op) == Response(200, [status |-> "success"])

\* What the caller makes of an exception raised by a backend call made on
\* behalf of `op` outside any try block of Pan123API.
RaiseResp(op) ==
    IF op \in LoginOps THEN LoginFailResp(op, "exception")
    ELSE Response(ExceptionStatus(op), [error |-> "exception"])

Busy(u) == pc[u] \notin {"idle", "done", "serving", "dead"}

\* dirty after a step of thread t: `wrote` when the step wrote the
\* authorization of config / settings.json, `ends` when it ends t's request.
DirtyAfter(t, wrote, ends) ==
    [u \in AllThreads |->
        IF u = t THEN (IF ends THEN FALSE ELSE dirty[u])
        ELSE IF wrote /\ Busy(u) /\ req[u].op \in LoginOps THEN TRUE
        ELSE dirty[u]]

BeginCall(t) == inCall' = inCall \cup {t}
EndCall(t) == inCall' = inCall \ {t}

-----------------------------------------------------------------------------
(* The HTTP server hands a request to the first idle worker *)

StartRequest(t) ==
    /\ pc[Main] = "serving"
    /\ \E i \in DOMAIN Workers :
          /\ Workers[i] = t
          /\ \A j \in 1..(i - 1) : Busy(Workers[j])
    /\ pc[t] \in {"idle", "done"}
    /\ nreq < MaxRequests
    /\ \E r \in Requests :
          /\ req' = [req EXCEPT ![t] = r]
          /\ pc' = [pc EXCEPT ![t] = FirstPc(r.op)]
          /\ prev' = [prev EXCEPT ![t] =
                        IF /\ pc[t] = "done"
                           /\ r.op \in ResolveOps
                           /\ r.op = req[t].op
                           /\ r.path = req[t].path
                        THEN [op |-> req[t].op, path |-> req[t].path,
                              resp |-> resp[t]]
                        ELSE NoPrev]
          /\ snap' = [snap EXCEPT ![t] =
                        IF r.op \in LoginOps
                        THEN [pan |-> NoneHandle,
                              auth |-> config.authorization,
                              pauth |-> persisted.authorization]
                        ELSE NoSnap]
    /\ nreq' = nreq + 1
    /\ calls' = [calls EXCEPT ![t] = NoCalls]
    /\ resp' = [resp EXCEPT ![t] = NoResponse]
    /\ UNCHANGED <<lock, pan, config, persisted, parts, cur, code, inCall,
                   dirty, files, sent>>

-----------------------------------------------------------------------------
(* POST /api/login, before api.login() *)

\* api.config['user'] = username; api.config['password'] = password
SetCreds(cfg, user, pass) == [cfg EXCEPT !.user = user, !.password = pass]

\* The three assignments of _save_config.
SaveConfig(cfg, h) ==
    [cfg EXCEPT !.user = h.user_name, !.password = h.password,
                !.authorization = h.authorization]

\* Mutant: the write of settings.json is lost.
WriteSettingsLost(cfg) == persisted

\* The json.dump of _save_config: the file holds the config it is given.
WriteSettings(cfg) == cfg

HLoginSetCreds(t) ==
    /\ pc[t] = "h_login"
    /\ IF req[t].user # "" /\ req[t].pass # ""
       THEN /\ config' = SetCreds(config, req[t].user, req[t].pass)
            /\ pc' = [pc EXCEPT ![t] = "h_login_save"]
       ELSE /\ config' = config
            /\ pc' = [pc EXCEPT ![t] = "login_acquire"]
    /\ UNCHANGED <<lock, pan, persisted, req, parts, cur, code, resp, inCall,
                   calls, snap, dirty, prev, nreq, files, sent>>

HLoginSaveConfig(t) ==
    /\ pc[t] = "h_login_save"
    /\ config' = SaveConfig(config, pan)
    /\ persisted' = WriteSettings(config')
    /\ pc' = [pc EXCEPT ![t] = "login_acquire"]
    /\ dirty' = DirtyAfter(t, TRUE, FALSE)
    /\ UNCHANGED <<lock, pan, req, parts, cur, code, resp, inCall, calls, snap,
                   prev, nreq, files, sent>>

-----------------------------------------------------------------------------
(* Pan123API.login *)

LoginAcquire(t) ==
    /\ pc[t] = "login_acquire"
    /\ Acquire(t)
    /\ pan' = NewHandle(pan.id + 1, config.user, config.password,
                        config.authorization)
    /\ snap' = [snap EXCEPT ![t].pan = pan]
    /\ pc' = [pc EXCEPT ![t] = "login_call"]
    /\ UNCHANGED <<config, persisted, req, parts, cur, code, resp, inCall,
                   calls, dirty, prev, nreq, files, sent>>

LoginCall(t) ==
    /\ pc[t] = "login_call"
    /\ BeginCall(t)
    /\ pc' = [pc EXCEPT ![t] = "login_ret"]
    /\ UNCHANGED <<lock, pan, config, persisted, req, parts, cur, code, resp,
                   calls, snap, dirty, prev, nreq, files, sent>>

LoginReturn(t) ==
    /\ pc[t] = "login_ret"
    /\ EndCall(t)
    /\ \/ /\ \E c \in BackendCodes, tok \in IssuedTokens(pan) :
                /\ code' = [code EXCEPT ![t] = c]
                /\ pan' = HandleAfterLogin(pan, c, tok)
          /\ pc' = [pc EXCEPT ![t] = "login_check"]
          /\ UNCHANGED <<lock, resp, calls, parts, cur, snap, dirty>>
       \/ /\ calls' = [calls EXCEPT ![t].raised = TRUE]
          /\ Release(t)
          /\ Finish(t, RaiseResp(req[t].op))
          /\ dirty' = DirtyAfter(t, FALSE, TRUE)
          /\ UNCHANGED pan
    /\ UNCHANGED <<config, persisted, req, prev, nreq, files, sent>>

\* Whether login() takes the failure branch on login_code.
LoginRejected(c) == c # OK

\* Mutant: the stale token is dropped when the backend rejects the login.
ConfigOnRejectionCleared(cfg, h) == [cfg EXCEPT !.authorization = ""]

\* The config a login() leaves behind when it raises on login_code.
ConfigOnRejection(cfg, h) == cfg

LoginCheck(t) ==
    /\ pc[t] = "login_check"
    /\ IF LoginRejected(code[t])
       THEN /\ config' = ConfigOnRejection(config, pan)
            /\ Release(t)
            /\ Finish(t, LoginFailResp(req[t].op, "login failed"))
            /\ dirty' = DirtyAfter(t, FALSE, TRUE)
            /\ UNCHANGED persisted
       ELSE /\ config' = SaveConfig([config EXCEPT
                                       !.authorization = pan.authorization], pan)
            /\ persisted' = WriteSettings(config')
            /\ LET pp == IF config.defaultPath # << >>
                         THEN PathParts(config.defaultPath) ELSE << >>
               IN  IF pp = << >>
                   THEN /\ Release(t)
                        /\ Finish(t, LoginOkResp(req[t].op))
                        /\ dirty' = DirtyAfter(t, TRUE, TRUE)
                   ELSE /\ parts' = [parts EXCEPT ![t] = pp]
                        /\ cur' = [cur EXCEPT ![t] = RootId]
                        /\ pc' = [pc EXCEPT ![t] = "find_call"]
                        /\ dirty' = DirtyAfter(t, TRUE, FALSE)
                        /\ UNCHANGED <<lock, resp, code, snap>>
    /\ UNCHANGED <<pan, req, inCall, calls, prev, nreq, files, sent>>

-----------------------------------------------------------------------------
(* _find_folder_by_name, as called from the loops of _validate_default_path, *)
(* list_folder and parsing                                                  *)

FindCall(t) ==
    /\ pc[t] = "find_call"
    /\ pan' = [pan EXCEPT !.parent_file_id = cur[t]]
    /\ BeginCall(t)
    /\ pc' = [pc EXCEPT ![t] = "find_ret"]
    /\ UNCHANGED <<lock, config, persisted, req, parts, cur, code, resp, calls,
                   snap, dirty, prev, nreq, files, sent>>

\* Mutant: a miss is only reported once the last segment has been looked up.
FindNextLate(idx, rest) ==
    IF rest # << >> THEN "next" ELSE IF idx = 0 THEN "miss" ELSE "resolved"

\* What the calling loop does with the result of one lookup: "miss" when
\* dir_info is None, "next" when more segments follow, "resolved" otherwise.
FindNext(idx, rest) ==
    IF idx = 0 THEN "miss" ELSE IF rest = << >> THEN "resolved" ELSE "next"

\* The result a caller returns, or the exception it raises, on a miss.
MissResp(op) ==
    IF op \in LoginOps THEN LoginFailResp(op, "invalid home directory")
    ELSE Response(ErrorStatus(op), [error |-> "folder or file not found"])

FindReturn(t) ==
    /\ pc[t] = "find_ret"
    /\ EndCall(t)
    /\ \/ /\ calls' = [calls EXCEPT ![t].get_dir = @ + 1]
          /\ pan' = HandleAfterGetDir(pan)
          /\ LET idx == FindFolderIdx(pan'.list, Head(parts[t]))
                 rest == Tail(parts[t])
                 next == FindNext(idx, rest)
                 found == IF idx = 0 THEN cur[t] ELSE pan'.list[idx].FileId
             IN  CASE next = "miss" ->
                        /\ Release(t)
                        /\ Finish(t, MissResp(req[t].op))
                        /\ dirty' = DirtyAfter(t, FALSE, TRUE)
                   [] next = "resolved" /\ req[t].op \in LoginOps ->
                        /\ Release(t)
                        /\ Finish(t, LoginOkResp(req[t].op))
                        /\ dirty' = DirtyAfter(t, FALSE, TRUE)
                   [] OTHER ->
                        /\ parts' = [parts EXCEPT ![t] = rest]
                        /\ cur' = [cur EXCEPT ![t] = found]
                        /\ pc' = [pc EXCEPT ![t] =
                                    IF rest # << >> THEN "find_call"
                                    ELSE IF req[t].op = "list_folder"
                                    THEN "lf_final" ELSE "pa_final"]
                        /\ UNCHANGED <<lock, resp, code, snap, dirty>>
       \/ /\ calls' = [calls EXCEPT ![t].get_dir = @ + 1, ![t].raised = TRUE]
          /\ Release(t)
          /\ Finish(t, RaiseResp(req[t].op))
          /\ dirty' = DirtyAfter(t, FALSE, TRUE)
          /\ UNCHANGED pan
    /\ UNCHANGED <<config, persisted, req, prev, nreq, files, sent>>

-----------------------------------------------------------------------------
(* Pan123API.list, called by GET /api/list and by list_folder *)

ListAcquire(t) ==
    /\ pc[t] = "list_acquire"
    /\ Acquire(t)
    /\ snap' = [snap EXCEPT ![t].pan = pan]
    /\ pc' = [pc EXCEPT ![t] = "list_call"]
    /\ UNCHANGED <<pan, config, persisted, req, parts, cur, code, resp, inCall,
                   calls, dirty, prev, nreq, files, sent>>

ListCall(t) ==
    /\ pc[t] = "list_call"
    /\ BeginCall(t)
    /\ pc' = [pc EXCEPT ![t] = "list_ret"]
    /\ UNCHANGED <<lock, pan, config, persisted, req, parts, cur, code, resp,
                   calls, snap, dirty, prev, nreq, files, sent>>

ListReturn(t) ==
    /\ pc[t] = "list_ret"
    /\ EndCall(t)
    /\ Release(t)
    /\ \/ /\ calls' = [calls EXCEPT ![t].get_dir = @ + 1]
          /\ pan' = HandleAfterGetDir(pan)
          /\ Finish(t, Response(200, ListResult(pan'.list)))
       \/ /\ calls' = [calls EXCEPT ![t].get_dir = @ + 1, ![t].raised = TRUE]
          /\ Finish(t, RaiseResp(req[t].op))
          /\ UNCHANGED pan
    /\ UNCHANGED <<config, persisted, req, dirty, prev, nreq, files, sent>>

-----------------------------------------------------------------------------
(* Pan123API.list_folder *)

ListFolderAcquire(t) ==
    /\ pc[t] = "lf_acquire"
    /\ Acquire(t)
    /\ snap' = [snap EXCEPT ![t].pan = pan]
    /\ parts' = [parts EXCEPT ![t] = PathParts(req[t].path)]
    /\ cur' = [cur EXCEPT ![t] = pan.parent_file_id]
    /\ pc' = [pc EXCEPT ![t] =
                IF parts'[t] = << >> THEN "lf_final" ELSE "find_call"]
    /\ UNCHANGED <<pan, config, persisted, req, code, resp, inCall, calls,
                   dirty, prev, nreq, files, sent>>

ListFolderFinalCall(t) ==
    /\ pc[t] = "lf_final"
    /\ pan' = [pan EXCEPT !.parent_file_id = cur[t]]
    /\ BeginCall(t)
    /\ pc' = [pc EXCEPT ![t] = "lf_final_ret"]
    /\ UNCHANGED <<lock, config, persisted, req, parts, cur, code, resp, calls,
                   snap, dirty, prev, nreq, files, sent>>

\* After its own get_dir, list_folder calls self.list() with the lock held.
ListFolderFinalReturn(t) ==
    /\ pc[t] = "lf_final_ret"
    /\ EndCall(t)
    /\ \/ /\ calls' = [calls EXCEPT ![t].get_dir = @ + 1]
          /\ pan' = HandleAfterGetDir(pan)
          /\ pc' = [pc EXCEPT ![t] = "list_acquire"]
          /\ UNCHANGED <<lock, resp, parts, cur, code, snap>>
       \/ /\ calls' = [calls EXCEPT ![t].get_dir = @ + 1, ![t].raised = TRUE]
          /\ Release(t)
          /\ Finish(t, RaiseResp(req[t].op))
          /\ UNCHANGED pan
    /\ UNCHANGED <<config, persisted, req, dirty, prev, nreq, files, sent>>

-----------------------------------------------------------------------------
(* Pan123API.parsing *)

ParsingAcquire(t) ==
    /\ pc[t] = "pa_acquire"
    /\ Acquire(t)
    /\ snap' = [snap EXCEPT ![t].pan = pan]
    /\ parts' = [parts EXCEPT ![t] = AllButLast(PathParts(req[t].path))]
    /\ cur' = [cur EXCEPT ![t] = pan.parent_file_id]
    /\ pc' = [pc EXCEPT ![t] =
                IF parts'[t] = << >> THEN "pa_final" ELSE "find_call"]
    /\ UNCHANGED <<pan, config, persisted, req, code, resp, inCall, calls,
                   dirty, prev, nreq, files, sent>>

ParsingFinalCall(t) ==
    /\ pc[t] = "pa_final"
    /\ pan' = [pan EXCEPT !.parent_file_id = cur[t]]
    /\ BeginCall(t)
    /\ pc' = [pc EXCEPT ![t] = "pa_final_ret"]
    /\ UNCHANGED <<lock, config, persisted, req, parts, cur, code, resp, calls,
                   snap, dirty, prev, nreq, files, sent>>

\* get_dir returns; path_parts[-1] raises IndexError on an empty path;
\* otherwise the listing is scanned for the file.
ParsingFinalReturn(t) ==
    /\ pc[t] = "pa_final_ret"
    /\ EndCall(t)
    /\ \/ /\ calls' = [calls EXCEPT ![t].get_dir = @ + 1]
          /\ pan' = HandleAfterGetDir(pan)
          /\ LET pp == PathParts(req[t].path)
                 idx == IF pp = << >> THEN 0
                        ELSE FindFileIdx(pan'.list, pp[Len(pp)])
             IN  IF pp = << >>
                 THEN /\ Release(t)
                      /\ Finish(t, Response(ExceptionStatus(req[t].op),
                                            [error |-> "IndexError"]))
                 ELSE IF idx = 0
                 THEN /\ Release(t)
                      /\ Finish(t, Response(ErrorStatus(req[t].op),
                                            [error |-> "file not found"]))
                 ELSE /\ cur' = [cur EXCEPT ![t] = idx]
                      /\ pc' = [pc EXCEPT ![t] = "pa_link"]
                      /\ UNCHANGED <<lock, resp, parts, code, snap>>
       \/ /\ calls' = [calls EXCEPT ![t].get_dir = @ + 1, ![t].raised = TRUE]
          /\ Release(t)
          /\ Finish(t, RaiseResp(req[t].op))
          /\ UNCHANGED pan
    /\ UNCHANGED <<config, persisted, req, dirty, prev, nreq, files, sent>>

LinkCall(t) ==
    /\ pc[t] = "pa_link"
    /\ BeginCall(t)
    /\ pc' = [pc EXCEPT ![t] = "pa_link_ret"]
    /\ UNCHANGED <<lock, pan, config, persisted, req, parts, cur, code, resp,
                   calls, snap, dirty, prev, nreq, files, sent>>

LinkReturn(t) ==
    /\ pc[t] = "pa_link_ret"
    /\ EndCall(t)
    /\ Release(t)
    /\ \/ /\ calls' = [calls EXCEPT ![t].link = @ + 1]
          /\ Finish(t, Response(200, [url |-> LinkOf(pan, cur[t])]))
       \/ /\ calls' = [calls EXCEPT ![t].link = @ + 1, ![t].raised = TRUE]
          /\ Finish(t, RaiseResp(req[t].op))
    /\ UNCHANGED <<pan, config, persisted, req, dirty, prev, nreq, files, sent>>

-----------------------------------------------------------------------------
(* share, delete, create_folder, upload: handler and Pan123API method *)

\* Mutant: the handler does not look at its parameter.
MissingParamIgnored(arg) == FALSE

\* `if not file_id` / `if not folder_name` / no file part or empty filename
MissingParam(arg) == arg = << >>

HandlerParam(t) ==
    /\ pc[t] = "h_param"
    /\ IF MissingParam(req[t].arg)
       THEN Finish(t, Response(400, [error |-> "missing parameter"]))
       ELSE /\ pc' = [pc EXCEPT ![t] = IF req[t].op = "upload" THEN "up_save"
                                       ELSE "mut_acquire"]
            /\ UNCHANGED <<resp, parts, cur, code, snap>>
    /\ UNCHANGED <<lock, pan, config, persisted, req, inCall, calls, dirty,
                   prev, nreq, files, sent>>

\* save_path of the request of t
SavePath(t) == SecureFilename(req[t].arg)

\* Mutant: the handler never finds its staged file.
FileExistsNever(name) == FALSE

\* os.path.exists(save_path)
FileExists(name) == files[name] # NoThread

\* file.save(save_path), outside the lock and outside the try: it creates or
\* overwrites the file of that name.  A name that secure_filename empties
\* makes save_path the upload folder itself; open() raises and the exception
\* leaves the handler.
UploadSave(t) ==
    /\ pc[t] = "up_save"
    /\ IF SavePath(t) = << >>
       THEN /\ Finish(t, Response(500, [unhandled |-> "IsADirectoryError"]))
            /\ UNCHANGED files
       ELSE /\ files' = [files EXCEPT ![SavePath(t)] = t]
            /\ pc' = [pc EXCEPT ![t] = "mut_acquire"]
            /\ UNCHANGED <<resp, parts, cur, code, snap>>
    /\ UNCHANGED <<lock, pan, config, persisted, req, inCall, calls, dirty,
                   prev, nreq, sent>>

MutAcquire(t) ==
    /\ pc[t] = "mut_acquire"
    /\ Acquire(t)
    /\ snap' = [snap EXCEPT ![t].pan = pan]
    /\ pc' = [pc EXCEPT ![t] = "mut_call"]
    /\ UNCHANGED <<pan, config, persisted, req, parts, cur, code, resp, inCall,
                   calls, dirty, prev, nreq, files, sent>>

\* What pan.upload(file_path) reads when it opens the file: the content of
\* the request that wrote it last, or nothing when the file is gone.
ReadStaged(name) == IF FileExists(name) THEN files[name] ELSE "missing"

MutCall(t) ==
    /\ pc[t] = "mut_call"
    /\ BeginCall(t)
    /\ sent' = [sent EXCEPT ![t] = IF req[t].op = "upload"
                                   THEN ReadStaged(SavePath(t)) ELSE @]
    /\ pc' = [pc EXCEPT ![t] = "mut_ret"]
    /\ UNCHANGED <<lock, pan, config, persisted, req, parts, cur, code, resp,
                   calls, snap, dirty, prev, nreq, files>>

\* Mutant: the exception leaves the method and reaches the handler's own
\* `except Exception` clause.
MutExceptionPropagates(op) ==
    Response(ExceptionStatus(op), [error |-> "exception"])

\* The result of a Pan123API mutating method whose backend call raised:
\* its own `except Exception` returns {"error": str(e)}.
MutExceptionResp(op) == Response(ErrorStatus(op), [error |-> "exception"])

\* The result when the backend answered code c.
MutCodeResp(op, c) ==
    IF c = OK THEN Response(200, [status |-> "success"])
    ELSE Response(ErrorStatus(op), [error |-> "operation failed"])

\* The method returns and the lock is released.  share, delete and
\* create_folder answer at once; upload_file keeps the result and goes on to
\* remove its staged file.  A backend upload that found no file raises.
MutReturn(t) ==
    /\ pc[t] = "mut_ret"
    /\ EndCall(t)
    /\ Release(t)
    /\ \E r \in { MutCodeResp(req[t].op, c) :
                     c \in IF sent[t] = "missing" THEN {} ELSE BackendCodes }
                 \cup { MutExceptionResp(req[t].op) } :
          /\ calls' = [calls EXCEPT ![t].raised = (r = MutExceptionResp(req[t].op))]
          /\ IF req[t].op = "upload"
             THEN /\ resp' = [resp EXCEPT ![t] = r]
                  /\ pc' = [pc EXCEPT ![t] = "up_exists"]
                  /\ snap' = [snap EXCEPT ![t] = NoSnap]
                  /\ UNCHANGED <<parts, cur, code>>
             ELSE Finish(t, r)
    /\ sent' = [sent EXCEPT ![t] = NoThread]
    /\ UNCHANGED <<pan, config, persisted, req, dirty, prev, nreq, files>>

\* The answer of upload_file when os.remove raised inside its try block.
RemoveFailedResp == Response(500, [error |-> "FileNotFoundError"])

\* `if os.path.exists(save_path):` after api.upload returned (up_exists) and
\* in the handler's except clause (up_exists2).
UploadExists(t) ==
    /\ pc[t] \in {"up_exists", "up_exists2"}
    /\ IF FileExists(SavePath(t))
       THEN /\ pc' = [pc EXCEPT ![t] = IF pc[t] = "up_exists" THEN "up_remove"
                                       ELSE "up_remove2"]
            /\ UNCHANGED <<resp, parts, cur, code, snap>>
       ELSE Finish(t, resp[t])
    /\ UNCHANGED <<lock, pan, config, persisted, req, inCall, calls, dirty,
                   prev, nreq, files, sent>>

\* os.remove(save_path): removes the file of that name, whoever wrote it; it
\* raises when the file is gone.  Raised inside the try (up_remove) the
\* exception reaches the except clause, which answers 500; raised inside
\* the except clause (up_remove2) it leaves the handler.
UploadRemove(t) ==
    /\ pc[t] \in {"up_remove", "up_remove2"}
    /\ IF files[SavePath(t)] # NoThread
       THEN /\ files' = [files EXCEPT ![SavePath(t)] = NoThread]
            /\ Finish(t, resp[t])
       ELSE /\ UNCHANGED files
            /\ IF pc[t] = "up_remove"
               THEN /\ resp' = [resp EXCEPT ![t] = RemoveFailedResp]
                    /\ pc' = [pc EXCEPT ![t] = "up_exists2"]
                    /\ UNCHANGED <<parts, cur, code, snap>>
               ELSE Finish(t, Response(500, [unhandled |-> "FileNotFoundError"]))
    /\ UNCHANGED <<lock, pan, config, persisted, req, inCall, calls, dirty,
                   prev, nreq, sent>>

-----------------------------------------------------------------------------
(* Specification *)

Step(t) ==
    \/ StartRequest(t)
    \/ HLoginSetCreds(t) \/ HLoginSaveConfig(t)
    \/ LoginAcquire(t) \/ LoginCall(t) \/ LoginReturn(t) \/ LoginCheck(t)
    \/ FindCall(t) \/ FindReturn(t)
    \/ ListAcquire(t) \/ ListCall(t) \/ ListReturn(t)
    \/ ListFolderAcquire(t) \/ ListFolderFinalCall(t) \/ ListFolderFinalReturn(t)
    \/ ParsingAcquire(t) \/ ParsingFinalCall(t) \/ ParsingFinalReturn(t)
    \/ LinkCall(t) \/ LinkReturn(t)
    \/ HandlerParam(t) \/ MutAcquire(t) \/ MutCall(t) \/ MutReturn(t)
    \/ UploadSave(t) \/ UploadExists(t) \/ UploadRemove(t)

Next == \E t \in AllThreads : Step(t)

Spec == Init /\ [][Next]_vars

\* Every thread that can take a step eventually takes one (the OS scheduler
\* starves no runnable thread).
FairSpec == Spec /\ \A t \in AllThreads : WF_vars(Step(t))

-----------------------------------------------------------------------------
(* Specification of the pure functions: the loop of list() over a fetched  *)
(* listing and _format_size, applied to inputs drawn from bounded sets     *)

MaxListLen == 3

\* Entries a fetched listing is made of: folders, a file, and an entry whose
\* Type is neither 0 nor 1.
EntryPool == { Entry(1, <<"a">>, 1, 0), Entry(2, <<"f">>, 0, 1024),
               Entry(3, <<"a">>, 2, 1025), Entry(4, <<"f">>, 1, 0) }

ListInputs == UNION { [1..k -> EntryPool] : k \in 0..MaxListLen }

\* Sizes at and around the three thresholds, and the largest 32-bit size.
SizeInputs == { 0, 1, 9, 10, KB - 1, KB, KB + 1, KB + 128, MB - 1, MB, MB + 1,
                GB - 1, GB, GB + 1, GB + (GB - 1) }

PureInit ==
    /\ lock = NoThread
    /\ \E lst \in ListInputs :
          pan = [NewHandle(1, "u1", "p1", "t0") EXCEPT !.list = lst]
    /\ config = [defaultPath |-> << >>, user |-> "u1", password |-> "p1",
                 authorization |-> "t0"]
    /\ persisted = config
    /\ pc = [t \in AllThreads |-> IF t = Main THEN "serving" ELSE "pure"]
    /\ req = [t \in AllThreads |-> Request("", << >>, "", "", NoArg)]
    /\ parts = [t \in AllThreads |-> << >>]
    /\ \E size \in SizeInputs :
          cur = [t \in AllThreads |-> IF t = Main THEN 0 ELSE size]
    /\ code = [t \in AllThreads |-> 0]
    /\ resp = [t \in AllThreads |-> NoResponse]
    /\ inCall = {}
    /\ calls = [t \in AllThreads |-> NoCalls]
    /\ snap = [t \in AllThreads |-> NoSnap]
    /\ dirty = [t \in AllThreads |-> FALSE]
    /\ prev = [t \in AllThreads |-> NoPrev]
    /\ nreq = 0
    /\ files = [n \in StagedNames |-> NoThread]
    /\ sent = [t \in AllThreads |-> NoThread]

\* The loop of list() over the listing the handle holds.
ApplyList(t) ==
    /\ pc[t] = "pure"
    /\ resp' = [resp EXCEPT ![t] = Response(200, ListResult(pan.list))]
    /\ pc' = [pc EXCEPT ![t] = "pure_listed"]
    /\ UNCHANGED <<lock, pan, config, persisted, req, parts, cur, code, inCall,
                   calls, snap, dirty, prev, nreq, files, sent>>

\* _format_size of the size held in cur[t].
ApplyFormat(t) ==
    /\ pc[t] = "pure"
    /\ resp' = [resp EXCEPT ![t] = Response(200, [size |-> FormatSize(cur[t])])]
    /\ pc' = [pc EXCEPT ![t] = "pure_formatted"]
    /\ UNCHANGED <<lock, pan, config, persisted, req, parts, cur, code, inCall,
                   calls, snap, dirty, prev, nreq, files, sent>>

PureNext == \E t \in Threads : ApplyList(t) \/ ApplyFormat(t)

PureSpec == PureInit /\ [][PureNext]_vars

-----------------------------------------------------------------------------
(* Reference definitions used by the properties *)

\* The folder a sequence of segments names, walking the backend tree from
\* `dir`; -1 when some segment names no folder.
RECURSIVE ResolveFolder(_, _)
ResolveFolder(dir, pp) ==
    IF pp = << >> THEN dir
    ELSE LET lst == BackendListing(dir)
             i == FindFolderIdx(lst, Head(pp))
         IN  IF i = 0 THEN -1 ELSE ResolveFolder(lst[i].FileId, Tail(pp))

\* Position (from k) of the first segment of pp that names no folder in the
\* directory reached so far, 0 when every segment resolves.
RECURSIVE MissAt(_, _, _)
MissAt(dir, pp, k) ==
    IF pp = << >> THEN 0
    ELSE LET lst == BackendListing(dir)
             i == FindFolderIdx(lst, Head(pp))
         IN  IF i = 0 THEN k ELSE MissAt(lst[i].FileId, Tail(pp), k + 1)

AcquirePcs == {"login_acquire", "list_acquire", "lf_acquire", "pa_acquire",
               "mut_acquire"}

\* Thread t ends its request with this step.
Ends(t) == Busy(t) /\ pc'[t] \in {"done", "serving", "dead"}

-----------------------------------------------------------------------------
(* C1: no two backend calls are ever in progress at the same time, and     *)
(* every backend call runs while its calling thread holds the global lock. *)

C1_BackendCallsSerialized ==
    /\ Cardinality(inCall) <= 1
    /\ \A t \in inCall : lock = t

\* A backend call is in progress while another request waits for the lock.
C1_Witness ==
    \E t \in inCall : \E u \in Threads \ {t} : pc[u] \in AcquirePcs

-----------------------------------------------------------------------------
(* C2: GET /api/list/{path} with a path whose segments all resolve to      *)
(* folders eventually returns the listing of the resolved folder and       *)
(* releases the global lock, provided every backend call returns.          *)

\* list_folder has resolved every segment and fetched the resolved folder.
C2_Resolved(t) == req[t].op = "list_folder" /\ pc[t] = "list_acquire"

C2_ListFolderReturns ==
    \A t \in Threads :
        C2_Resolved(t) ~> (pc[t] = "done" /\ lock # t)

-----------------------------------------------------------------------------
(* C3: after a successful login with a non-empty default path whose        *)
(* segments all resolve to folders from the account root, the handle's     *)
(* cursor (parent_file_id) is the identifier of the final resolved folder. *)

C3_LoginSucceeds(t) ==
    /\ req[t].op \in LoginOps
    /\ Ends(t)
    /\ "error" \notin DOMAIN resp'[t].body

C3_CursorAtDefaultPath ==
    [][\A t \in AllThreads :
          (C3_LoginSucceeds(t) /\ PathParts(config'.defaultPath) # << >>)
          => pan'.parent_file_id =
                ResolveFolder(RootId, PathParts(config'.defaultPath))]_vars

-----------------------------------------------------------------------------
(* C4: after a login attempt in which the backend returns a status other   *)
(* than 200, the installed handle is the handle that was installed before  *)
(* the attempt, with its cursor and token as they were.                    *)

\* login() raises on login_code with this step.
RejectedLoginEnds(t) ==
    pc[t] = "login_check" /\ code[t] # OK /\ pc'[t] # "login_check"

C4_HandleKeptOnRejection ==
    [][\A t \in Threads : RejectedLoginEnds(t) => pan' = snap[t].pan]_vars

-----------------------------------------------------------------------------
(* C5: a login attempt whose backend status is not 200 leaves the          *)
(* authorization in the config and in settings.json as they were when the  *)
(* request began (no other request having written them in between).        *)

C5_AuthorizationKeptOnRejection ==
    [][\A t \in AllThreads :
          (RejectedLoginEnds(t) /\ ~dirty[t])
          => /\ config'.authorization = snap[t].auth
             /\ persisted'.authorization = snap[t].pauth]_vars

\* POST /api/login with credentials has saved the config, the backend has
\* answered a status other than 200, and nobody else wrote the authorization.
C5_Witness ==
    \E t \in Threads :
        /\ req[t].op = "login" /\ req[t].user # "" /\ req[t].pass # ""
        /\ pc[t] = "login_check" /\ code[t] # OK /\ ~dirty[t]

-----------------------------------------------------------------------------
(* C6: for a fixed backend tree, resolving the same path twice in          *)
(* succession through the same operation yields the same outcome.          *)

BackendRaised(r) == r.body = [error |-> "exception"]

\* t has answered the same resolution request twice in a row, no other
\* worker has handled anything, and the backend raised in neither.
C6_ResolvedTwice(t) ==
    /\ pc[t] = "done"
    /\ req[t].op \in ResolveOps
    /\ prev[t].op = req[t].op /\ prev[t].path = req[t].path
    /\ \A u \in Threads \ {t} : pc[u] = "idle"
    /\ ~BackendRaised(resp[t]) /\ ~BackendRaised(prev[t].resp)

C6_ResolutionIdempotent ==
    \A t \in Threads : C6_ResolvedTwice(t) => resp[t] = prev[t].resp

-----------------------------------------------------------------------------
(* C7: every read or write of the shared handle and of the shared config   *)
(* made while handling a request happens with the global lock held.        *)

\* The next step of t reads or writes api.pan or api.config.
TouchesShared(t) ==
    \/ pc[t] = "h_login" /\ req[t].user # "" /\ req[t].pass # ""
    \/ pc[t] \in {"h_login_save", "login_call", "login_ret", "login_check",
                  "find_call", "find_ret", "list_call", "list_ret",
                  "lf_final", "lf_final_ret", "pa_final", "pa_final_ret",
                  "pa_link", "pa_link_ret", "mut_call", "mut_ret"}

C7_SharedStateUnderLock ==
    \A t \in AllThreads : TouchesShared(t) => lock = t

-----------------------------------------------------------------------------
(* C8: when segment k (k < n) of an n-segment path is the first that names *)
(* no folder in the directory reached so far, resolution ends not-found    *)
(* right after the k-th directory fetch: no later listing, no link.        *)

\* The position of the first missing segment of t's path, from the cursor
\* t found when it took the lock.
C8_MissPos(t) ==
    MissAt(snap[t].pan.parent_file_id, PathParts(req[t].path), 1)

C8_Resolving(t) ==
    /\ req[t].op \in ResolveOps
    /\ lock = t
    /\ C8_MissPos(t) > 0
    /\ C8_MissPos(t) < Len(PathParts(req[t].path))

C8_StopsAtFirstMiss ==
    [][\A t \in Threads :
          C8_Resolving(t)
          => /\ calls'[t].get_dir <= C8_MissPos(t)
             /\ calls'[t].link = 0
             /\ (Ends(t) /\ ~calls'[t].raised)
                => /\ resp'[t] = MissResp(req[t].op)
                   /\ calls'[t].get_dir = C8_MissPos(t)]_vars

\* A three-segment path whose second segment is missing has been answered
\* not-found after two fetches.
C8_Witness ==
    \E t \in Threads :
        /\ pc[t] = "done" /\ req[t].op \in ResolveOps
        /\ Len(PathParts(req[t].path)) = 3
        /\ resp[t] = MissResp(req[t].op)
        /\ calls[t].get_dir = 2 /\ calls[t].link = 0

-----------------------------------------------------------------------------
(* C9: resolving a path whose segments are all empty performs no folder    *)
(* lookup and leaves the cursor where it was: default-path validation      *)
(* leaves the cursor at the root, and list_folder returns the listing of   *)
(* the directory the cursor pointed at before the call.                    *)

C9_EmptyListFolder(t) ==
    /\ req[t].op = "list_folder"
    /\ PathParts(req[t].path) = << >>
    /\ lock = t

C9_EmptyPathResolvesInPlace ==
    /\ \A t \in Threads :
          C9_EmptyListFolder(t)
          => /\ pc[t] \notin {"find_call", "find_ret"}
             /\ calls[t].get_dir <= 1
             /\ pan.parent_file_id = snap[t].pan.parent_file_id
             /\ ENABLED Step(t)
    /\ (/\ pc[Main] = "serving" /\ nreq = 0
        /\ config.defaultPath # << >>
        /\ PathParts(config.defaultPath) = << >>)
       => pan.parent_file_id = RootId

-----------------------------------------------------------------------------
(* C10: an exception raised by the backend client never leaves a request   *)
(* handler; it is answered 500 with {error} by /api/list, /api/list/{path},*)
(* /api/parsing/{path} and /api/upload, and 400 with {error} by            *)
(* /api/share, /api/delete, /api/create_folder and /api/reload.            *)

\* A request other than /api/login has been answered after the backend
\* raised while serving it.
C10_AnsweredRaise(t) ==
    pc[t] = "done" /\ calls[t].raised /\ req[t].op # "login"

C10_ClaimedStatus(op) ==
    IF op \in {"list", "list_folder", "parsing", "upload"} THEN 500 ELSE 400

C10_ExceptionStatusAsClaimed ==
    \A t \in Threads :
        C10_AnsweredRaise(t)
        => /\ resp[t].status = C10_ClaimedStatus(req[t].op)
           /\ "error" \in DOMAIN resp[t].body

\* Amended: /api/upload answers 400, because Pan123API.upload catches the
\* exception itself and returns {"error"}; it answers 500 only when the
\* removal of its staged file raises afterwards.
C10_ActualStatus(op) ==
    IF op \in {"list", "list_folder", "parsing"} THEN 500 ELSE 400

\* The answer of an upload whose os.remove found the staged file gone.
C10_CleanupFailed(r) ==
    /\ r.status = 500
    /\ \/ r.body = [error |-> "FileNotFoundError"]
       \/ r.body = [unhandled |-> "FileNotFoundError"]

C10_ExceptionStatusAmended ==
    \A t \in Threads :
        C10_AnsweredRaise(t)
        => \/ /\ resp[t].status = C10_ActualStatus(req[t].op)
              /\ "error" \in DOMAIN resp[t].body
           \/ /\ req[t].op = "upload"
              /\ C10_CleanupFailed(resp[t])

\* The backend raised during an upload and the request was answered 400.
C10_Witness ==
    \E t \in Threads :
        /\ C10_AnsweredRaise(t) /\ req[t].op = "upload"
        /\ resp[t].status = 400
        /\ \E u \in Threads :
              /\ C10_AnsweredRaise(u) /\ req[u].op = "list"
              /\ resp[u].status = 500


-----------------------------------------------------------------------------
(* C11: POST /api/share or /api/delete without a file_id, or               *)
(* /api/create_folder without a folder_name, is answered 400 with an error *)
(* body; the request never holds the global lock and makes no backend      *)
(* call, and its answer leaves the handle, its cursor and the config as    *)
(* they were.                                                              *)

C11_Ops == {"share", "delete", "create_folder"}

C11_ParamMissing(t) == req[t].op \in C11_Ops /\ req[t].arg = NoArg

C11_MissingParamRejected ==
    [][\A t \in Threads :
          C11_ParamMissing(t)' =>
             /\ pc'[t] \in {"h_param", "done"}
             /\ lock' # t
             /\ t \notin inCall'
             /\ calls'[t] = NoCalls
             /\ (pc[t] = "h_param" /\ pc'[t] = "done") =>
                   /\ resp'[t].status = 400
                   /\ "error" \in DOMAIN resp'[t].body
                   /\ UNCHANGED <<lock, inCall, pan, config, persisted>>]_vars

\* A request without its parameter has been answered 400 while another
\* request holds the lock.
C11_Witness ==
    \E t \in Threads :
        /\ C11_ParamMissing(t)
        /\ pc[t] = "done"
        /\ resp[t].status = 400
        /\ lock \in Threads \ {t}


-----------------------------------------------------------------------------
(* C12: when a login succeeds, the authorization of the in-memory config   *)
(* is the token of the installed handle; and whenever the service is up    *)
(* and no request is in progress, settings.json holds exactly the          *)
(* in-memory config.                                                       *)

C12_Quiescent ==
    /\ pc[Main] = "serving"
    /\ \A t \in Threads : ~Busy(t)

-----------------------------------------------------------------------------
(* C14: if the first login, made at startup, does not succeed (the backend *)
(* answers a status other than 200, or the default path does not resolve), *)
(* no request handler ever runs; so every handler that runs finds a handle *)
(* installed by a login attempt, and the startup login succeeded.          *)

C14_StartupFailed == "error" \in DOMAIN resp[Main].body

C14_NoHandlerWithoutLogin ==
    /\ C14_StartupFailed =>
          /\ pc[Main] = "dead"
          /\ \A t \in Threads : pc[t] = "idle"
    /\ \A t \in Threads :
          pc[t] # "idle" =>
             /\ pc[Main] = "serving"
             /\ pan.alive
             /\ pan.id >= 1

\* The startup login was accepted by the backend but the default path did
\* not resolve: the process is dead with a handle installed.
C14_Witness ==
    /\ pc[Main] = "dead"
    /\ resp[Main].body.error = "invalid home directory"
    /\ pan.alive


-----------------------------------------------------------------------------
(* C15: list() returns in `folder` exactly the entries of the fetched      *)
(* listing whose Type is 1 and in `file` exactly all the other entries,    *)
(* each in backend order, so every entry is in exactly one of the two.     *)

\* The k-th smallest member of a set of positions.
C15_Nth(S, k) == CHOOSE i \in S : Cardinality({ j \in S : j <= i }) = k

C15_Partitioned(lst, out) ==
    LET F == { i \in 1..Len(lst) : lst[i].Type = FolderType }
        O == (1..Len(lst)) \ F
    IN  /\ Len(out.folder) = Cardinality(F)
        /\ Len(out.file) = Cardinality(O)
        /\ \A k \in 1..Len(out.folder) :
              /\ out.folder[k].id = IdStr(lst[C15_Nth(F, k)].FileId)
              /\ out.folder[k].name = lst[C15_Nth(F, k)].FileName
        /\ \A k \in 1..Len(out.file) :
              /\ out.file[k].id = IdStr(lst[C15_Nth(O, k)].FileId)
              /\ out.file[k].name = lst[C15_Nth(O, k)].FileName

C15_ListPartitions ==
    \A t \in Threads :
        pc[t] = "pure_listed" => C15_Partitioned(pan.list, resp[t].body)

\* list() has run over a listing that holds a file, then a folder, then an
\* entry of another Type.
C15_Witness ==
    \E t \in Threads :
        /\ pc[t] = "pure_listed"
        /\ Len(pan.list) = 3
        /\ pan.list[1].Type = 0
        /\ pan.list[2].Type = FolderType
        /\ pan.list[3].Type = 2
        /\ Len(resp[t].body.file) = 2

-----------------------------------------------------------------------------
(* C16: _format_size chooses the unit by strict comparison: bytes exactly  *)
(* when b <= 1024, KB exactly when 1024 < b <= 1048576, MB exactly when    *)
(* 1048576 < b <= 1073741824, GB exactly when b > 1073741824; and in the   *)
(* bytes case the result is b in decimal followed by "B".                  *)

C16_IsLetter(c) == c \in {"K", "M", "G", "B"}
C16_IsDigit(c) == \E d \in 0..9 : Digit(d) = c

C16_Unit(s) == SelectSeq(s, C16_IsLetter)

\* The number a sequence of decimal digits denotes.
RECURSIVE C16_Parse(_)
C16_Parse(ds) ==
    IF ds = << >> THEN 0
    ELSE 10 * C16_Parse(SubSeq(ds, 1, Len(ds) - 1))
         + (CHOOSE d \in 0..9 : Digit(d) = ds[Len(ds)])

C16_UnitByStrictComparison ==
    \A t \in Threads :
        pc[t] = "pure_formatted" =>
           LET b == cur[t]
               out == resp[t].body.size
               ds == SubSeq(out, 1, Len(out) - 1)
           IN  /\ (C16_Unit(out) = <<"B">>) <=> (b <= KB)
               /\ (C16_Unit(out) = <<"K", "B">>) <=> (KB < b /\ b <= MB)
               /\ (C16_Unit(out) = <<"M", "B">>) <=> (MB < b /\ b <= GB)
               /\ (C16_Unit(out) = <<"G", "B">>) <=> (b > GB)
               /\ b <= KB =>
                     /\ ds # << >>
                     /\ \A i \in 1..Len(ds) : C16_IsDigit(ds[i])
                     /\ Len(ds) > 1 => ds[1] # "0"
                     /\ C16_Parse(ds) = b
                     /\ out = ds \o <<"B">>

\* _format_size has rendered exactly 1024 bytes.
C16_Witness ==
    \E t \in Threads :
        /\ pc[t] = "pure_formatted"
        /\ cur[t] = KB
        /\ resp[t].body.size = <<"1", "0", "2", "4", "B">>


-----------------------------------------------------------------------------
(* C17: a list_folder or parsing call that ends in a not-found result      *)
(* leaves the handle's cursor (parent_file_id) equal to its value before   *)
(* the call.                                                               *)

C17_EndsNotFound(t) ==
    /\ req[t].op \in ResolveOps
    /\ Ends(t)
    /\ resp'[t].status = ErrorStatus(req[t].op)

C17_CursorKeptOnNotFound ==
    [][\A t \in Threads :
          C17_EndsNotFound(t) =>
             pan'.parent_file_id = snap[t].pan.parent_file_id]_vars


-----------------------------------------------------------------------------
(* C18: under every interleaving, when parsing calls link(idx) the listing *)
(* the handle holds is the listing of the resolved parent directory, and   *)
(* idx is the position of the first entry of that listing that is not a    *)
(* folder and is named as the final path segment; no other request is      *)
(* inside a backend call between the fetch and the link.                   *)

C18_Linking(t) == pc[t] \in {"pa_link", "pa_link_ret"}

C18_LinkUsesOwnListing ==
    \A t \in Threads :
        C18_Linking(t) =>
           LET pp == PathParts(req[t].path)
               parent == ResolveFolder(snap[t].pan.parent_file_id,
                                       AllButLast(pp))
               lst == BackendListing(parent)
               idx == cur[t]
           IN  /\ lock = t
               /\ inCall \subseteq {t}
               /\ pan.parent_file_id = parent
               /\ pan.list = lst
               /\ idx \in 1..Len(lst)
               /\ lst[idx].Type # FolderType
               /\ lst[idx].FileName = pp[Len(pp)]
               /\ \A j \in 1..(idx - 1) :
                     lst[j].Type = FolderType \/ lst[j].FileName # pp[Len(pp)]

\* parsing is inside link() for a file that follows a folder of the same
\* name in its parent's listing, while another request waits for the lock.
C18_Witness ==
    \E t \in Threads :
        /\ pc[t] = "pa_link_ret"
        /\ cur[t] > 1
        /\ \E j \in 1..(cur[t] - 1) : pan.list[j].FileName = pan.list[cur[t]].FileName
        /\ \E u \in Threads \ {t} : pc[u] \in AcquirePcs


-----------------------------------------------------------------------------
(* C19: when POST /api/login carries a non-empty username and a non-empty  *)
(* password, the handle its login() constructs is constructed with exactly *)
(* that username and password, and the config holds them when the request  *)
(* has been answered.                                                      *)

C19_CarriesCredentials(t) ==
    req[t].op = "login" /\ req[t].user # "" /\ req[t].pass # ""

\* login() of t constructs the handle with this step.
C19_Constructs(t) == pc[t] = "login_acquire" /\ pc'[t] = "login_call"

C19_CredentialsTakeEffect ==
    [][\A t \in Threads :
          C19_CarriesCredentials(t) =>
             /\ C19_Constructs(t) =>
                   /\ pan'.user_name = req[t].user
                   /\ pan'.password = req[t].pass
             /\ Ends(t) =>
                   /\ config'.user = req[t].user
                   /\ config'.password = req[t].pass]_vars


-----------------------------------------------------------------------------
(* C13: once an upload request that staged a file has been answered        *)
(* (backend success, backend failure or exception), the file it staged is  *)
(* no longer in the upload folder, under every interleaving of concurrent  *)
(* uploads, uploads of the same sanitized filename included: every file in *)
(* the folder holds the content of an upload that is still in progress.    *)

\* Positions of upload_file between file.save and its return.
C13_StagedPcs == {"mut_acquire", "mut_call", "mut_ret", "up_exists",
                  "up_remove", "up_exists2", "up_remove2"}

C13_StagedFileRemoved ==
    \A n \in StagedNames :
        files[n] # NoThread =>
           LET t == files[n]
           IN  /\ req[t].op = "upload"
               /\ pc[t] \in C13_StagedPcs
               /\ SavePath(t) = n

\* An upload has been answered while a concurrent upload, whose different
\* file name is sanitized to the same staged name, has its file staged.
C13_Witness ==
    \E t \in Threads, u \in Threads :
        /\ t # u
        /\ pc[t] = "done" /\ req[t].op = "upload" /\ req[t].arg # NoArg
        /\ req[u].op = "upload" /\ req[u].arg # req[t].arg
        /\ SavePath(u) = SavePath(t)
        /\ pc[u] = "mut_ret"
        /\ files[SavePath(t)] = u

-----------------------------------------------------------------------------
(* C20: for two concurrent uploads whose sanitized filenames are equal,    *)
(* the backend upload call of each request reads a staged file that still  *)
(* exists and holds the content that same request submitted.               *)

C20_ReadsOwnContent ==
    \A t \in Threads :
        (req[t].op = "upload" /\ pc[t] = "mut_ret") => sent[t] = t

====
